---- MODULE Spec2Model ----
(***************************************************************************)
(* The CSV-to-JSON converter of json-parser (csvToJson in src/src/App.tsx  *)
(* and its copy in src/unnamed/part_000), as a state machine.              *)
(*                                                                         *)
(* A JavaScript string is a sequence of one-character strings.  A call of  *)
(* csvToJson is run one loop iteration per step; its locals (lines,        *)
(* headers, jsonArray, i) are variables that every call sets afresh, as    *)
(* the `const`/`let` declarations of the function do.                      *)
(***************************************************************************)
EXTENDS Integers, Sequences, FiniteSets, TLC

VARIABLES
  csv,          \* the argument of the running (or last) call of csvToJson
  pc,           \* "entry", "loop", "returned" or "thrown"
  lines,        \* const lines
  headers,      \* const headers
  jsonArray,    \* const jsonArray
  i,            \* let i of the for loop
  outcome,      \* what the last finished call returned or threw
  calls,        \* number of calls begun
  otherCalled,  \* history: a call on another input than the one before it was made
  firstCsv,     \* history: the argument of the first call
  firstOutcome, \* history: the outcome of the first call
  csvInput,     \* useState: the text of the input pane
  jsonOutput,   \* useState: the JSON shown, <<>> for the empty string
  error,        \* useState: the message shown, <<>> for the empty string
  isLoading,    \* useState: a conversion is under way
  pending,      \* the handleParse that awaits its timer, or runs after it
  reads,        \* the file contents whose FileReader has not fired onload yet
  cleared       \* history: the display was cleared and Convert not clicked since

\* the state of the App component and of its callbacks in flight
ui == <<csvInput, jsonOutput, error, isLoading, pending, reads, cleared>>

vars == <<csv, pc, lines, headers, jsonArray, i, outcome, calls, otherCalled,
          firstCsv, firstOutcome, ui>>

(***************************************************************************)
(* Bounds of the model.                                                    *)
(***************************************************************************)
\* longest input, in characters, of the character-level specification Spec
MaxLen == 6
\* longest input, in tokens, of the token-level specification SpecCells
MaxToks == 3
\* longest input, in tokens, of the number-literal specification SpecNumbers
MaxNumToks == 3
\* longest input, in tokens, of the repeated-call specification SpecCalls
MaxCallToks == 2
\* number of calls of csvToJson in one behaviour of SpecCalls
MaxCalls == 3
\* most file reads in flight at once in the App specification SpecApp
MaxReads == 1
\* most columns of a line, most data rows, of the table specification SpecColumns
MaxCols == 2
MaxRows == 1

(***************************************************************************)
(* Characters and strings.                                                 *)
(***************************************************************************)
\* The white space String.prototype.trim and Number() strip, as far as the
\* model's inputs contain it.
WhiteSpace == {" ", "\t", "\r", "\n"}

UpperCase == <<"A","B","C","D","E","F","G","H","I","J","K","L","M",
               "N","O","P","Q","R","S","T","U","V","W","X","Y","Z">>
LowerCase == <<"a","b","c","d","e","f","g","h","i","j","k","l","m",
               "n","o","p","q","r","s","t","u","v","w","x","y","z">>

Digits16 == <<"0","1","2","3","4","5","6","7","8","9","a","b","c","d","e","f">>

SetMin(S) == CHOOSE x \in S : \A y \in S : x <= y
SetMax(S) == CHOOSE x \in S : \A y \in S : x >= y

\* String.prototype.trim
Trim(s) ==
  LET keep == {k \in 1..Len(s) : s[k] \notin WhiteSpace}
  IN  IF keep = {} THEN <<>> ELSE SubSeq(s, SetMin(keep), SetMax(keep))

\* String.prototype.split with a one-character separator: always at least
\* one piece, the empty string splits into one empty piece.
RECURSIVE Split(_, _)
Split(s, sep) ==
  LET at == {k \in 1..Len(s) : s[k] = sep}
  IN  IF at = {} THEN <<s>>
      ELSE LET k == SetMin(at)
           IN  <<SubSeq(s, 1, k - 1)>> \o Split(SubSeq(s, k + 1, Len(s)), sep)

LowerChar(c) ==
  IF \E k \in 1..26 : UpperCase[k] = c
  THEN LowerCase[CHOOSE k \in 1..26 : UpperCase[k] = c]
  ELSE c

\* String.prototype.toLowerCase
ToLowerCase(s) == [k \in 1..Len(s) |-> LowerChar(s[k])]

\* Array.prototype.map((x) => x.trim())
MapTrim(ss) == [k \in 1..Len(ss) |-> Trim(ss[k])]

\* Number::toString of a non-negative integer (template literal ${n})
RECURSIVE IntToString(_)
IntToString(n) ==
  IF n < 10 THEN <<Digits16[n + 1]>>
  ELSE IntToString(n \div 10) \o <<Digits16[(n % 10) + 1]>>

(***************************************************************************)
(* Number(value): the StringToNumber conversion.  A number is NaN, an      *)
(* infinity, or the finite decimal (-1)^neg * m * 10^e with m not          *)
(* divisible by 10 (m = 0 has e = 0).  Binary rounding is not modelled:    *)
(* the literals of the model have few significant digits, which a double   *)
(* and its shortest decimal form reproduce exactly.                        *)
(***************************************************************************)
NaN == [t |-> "NaN"]
Infinite(neg) == [t |-> "inf", neg |-> neg]

IsDigit(c, radix) == \E k \in 1..radix : Digits16[k] = LowerChar(c)
DigitVal(c) == (CHOOSE k \in 1..16 : Digits16[k] = LowerChar(c)) - 1
AllDigits(s, radix) == \A k \in 1..Len(s) : IsDigit(s[k], radix)

RECURSIVE IntOf(_, _)
IntOf(ds, radix) ==
  IF ds = <<>> THEN 0
  ELSE IntOf(SubSeq(ds, 1, Len(ds) - 1), radix) * radix + DigitVal(ds[Len(ds)])

RECURSIVE Pow10(_)
Pow10(n) == IF n = 0 THEN 1 ELSE 10 * Pow10(n - 1)

RECURSIVE NumDigits(_)
NumDigits(n) == IF n < 10 THEN 1 ELSE 1 + NumDigits(n \div 10)

RECURSIVE Normalize(_, _, _)
Normalize(neg, m, e) ==
  IF m = 0 THEN [t |-> "fin", neg |-> neg, m |-> 0, e |-> 0]
  ELSE IF m % 10 = 0 THEN Normalize(neg, m \div 10, e + 1)
  ELSE [t |-> "fin", neg |-> neg, m |-> m, e |-> e]

\* The largest double is 1.7976931348623157e308: a decimal of at most four
\* significant digits above it rounds to an infinity.
Overflows(m, e) ==
  LET p == NumDigits(m) + e
  IN  /\ m # 0
      /\ \/ p > 309
         \/ /\ p = 309
            /\ NumDigits(m) <= 4
            /\ m * Pow10(4 - NumDigits(m)) >= 1798

Finite(neg, m, e) ==
  LET n == Normalize(neg, m, e)
  IN  IF Overflows(n.m, n.e) THEN Infinite(neg) ELSE n

InfinityText == <<"I","n","f","i","n","i","t","y">>

\* StrUnsignedDecimalLiteral: Infinity, or digits with an optional fraction
\* and an optional exponent part.
UnsignedDecimal(neg, s) ==
  IF s = InfinityText THEN Infinite(neg)
  ELSE
    LET eAt   == {k \in 1..Len(s) : s[k] \in {"e", "E"}}
        mant  == IF eAt = {} THEN s ELSE SubSeq(s, 1, SetMin(eAt) - 1)
        expo  == IF eAt = {} THEN <<>> ELSE SubSeq(s, SetMin(eAt) + 1, Len(s))
        eNeg  == expo # <<>> /\ expo[1] = "-"
        eDig  == IF expo # <<>> /\ expo[1] \in {"+", "-"} THEN Tail(expo) ELSE expo
        dotAt == {k \in 1..Len(mant) : mant[k] = "."}
        whole == IF dotAt = {} THEN mant ELSE SubSeq(mant, 1, SetMin(dotAt) - 1)
        frac  == IF dotAt = {} THEN <<>> ELSE SubSeq(mant, SetMin(dotAt) + 1, Len(mant))
        expOk == eAt = {} \/ (eDig # <<>> /\ AllDigits(eDig, 10))
        manOk == /\ AllDigits(whole, 10)
                 /\ AllDigits(frac, 10)
                 /\ Len(whole) + Len(frac) > 0
        ev    == IF eAt = {} THEN 0
                 ELSE IF eNeg THEN 0 - IntOf(eDig, 10) ELSE IntOf(eDig, 10)
    IN  IF manOk /\ expOk
        THEN Finite(neg, IntOf(whole \o frac, 10), ev - Len(frac))
        ELSE NaN

RadixOf(c) ==
  IF c \in {"x", "X"} THEN 16
  ELSE IF c \in {"o", "O"} THEN 8
  ELSE IF c \in {"b", "B"} THEN 2
  ELSE 0

\* Number(value) for a string value.
StringToNumber(value) ==
  LET s == Trim(value)
  IN  IF s = <<>> THEN Finite(FALSE, 0, 0)
      ELSE IF Len(s) >= 2 /\ s[1] = "0" /\ RadixOf(s[2]) # 0
      THEN LET ds == SubSeq(s, 3, Len(s))
           IN  IF ds # <<>> /\ AllDigits(ds, RadixOf(s[2]))
               THEN Finite(FALSE, IntOf(ds, RadixOf(s[2])), 0)
               ELSE NaN
      ELSE IF s[1] \in {"+", "-"}
      THEN UnsignedDecimal(s[1] = "-", Tail(s))
      ELSE UnsignedDecimal(FALSE, s)

\* isNaN
IsNaN(n) == n.t = "NaN"

(***************************************************************************)
(* JavaScript values of a cell, and the record object of one data row.     *)
(***************************************************************************)
JsNumber(n)  == [t |-> "number", n |-> n]
JsBoolean(b) == [t |-> "boolean", b |-> b]
JsNull       == [t |-> "null"]
JsString(s)  == [t |-> "string", s |-> s]

TrueText  == <<"t","r","u","e">>
FalseText == <<"f","a","l","s","e">>
NullText  == <<"n","u","l","l">>
ProtoText == <<"_","_","p","r","o","t","o","_","_">>

\* The if / else-if chain that types one trimmed cell.
Coerce(value) ==
  IF ~IsNaN(StringToNumber(value)) /\ value # <<>>
  THEN JsNumber(StringToNumber(value))
  ELSE IF ToLowerCase(value) = TrueText \/ ToLowerCase(value) = FalseText
  THEN JsBoolean(ToLowerCase(value) = TrueText)
  ELSE IF ToLowerCase(value) = NullText \/ value = <<>>
  THEN JsNull
  ELSE JsString(value)

\* const obj = {}: no own property, prototype Object.prototype.
EmptyObject == [props |-> <<>>, proto |-> "Object.prototype"]

\* obj[header] = value on an ordinary object.  An existing own property
\* keeps its place and takes the new value, a new one is created last.
\* While the object inherits from Object.prototype, the key "__proto__" is
\* the inherited accessor: its setter changes the prototype when the value
\* is null and ignores every other primitive; no own property is created.
ObjectSet(obj, key, value) ==
  IF key = ProtoText /\ obj.proto = "Object.prototype"
  THEN IF value.t = "null" THEN [obj EXCEPT !.proto = "null"] ELSE obj
  ELSE IF \E k \in 1..Len(obj.props) : obj.props[k].key = key
  THEN [obj EXCEPT !.props =
          [k \in 1..Len(obj.props) |->
             IF obj.props[k].key = key
             THEN [key |-> key, value |-> value]
             ELSE obj.props[k]]]
  ELSE [obj EXCEPT !.props = Append(obj.props, [key |-> key, value |-> value])]

\* headers.forEach((header, index) => { ... obj[header] = value; })
RECURSIVE ForEachHeader(_, _, _, _)
ForEachHeader(obj, hs, values, index) ==
  IF index > Len(hs) THEN obj
  ELSE ForEachHeader(ObjectSet(obj, hs[index], Coerce(values[index])),
                     hs, values, index + 1)

(***************************************************************************)
(* JSON.stringify(jsonArray, null, 2).  The text is represented by what it *)
(* spells: the sequence of objects, each the sequence of its members       *)
(* (name, JSON value) in the order they are written.  Indentation, quotes  *)
(* and escapes are a fixed one-to-one layout of that sequence.             *)
(***************************************************************************)
\* An array index: a canonical numeric string below 2^32 - 1.
IsArrayIndex(key) ==
  /\ key # <<>>
  /\ AllDigits(key, 10)
  /\ (key[1] = "0" => Len(key) = 1)
  /\ \/ Len(key) < 10
     \/ /\ Len(key) = 10
        /\ LET hi == IntOf(SubSeq(key, 1, 5), 10)
               lo == IntOf(SubSeq(key, 6, 10), 10)
           IN  hi < 42949 \/ (hi = 42949 /\ lo <= 67294)

\* numeric order of two different array indices
IndexLess(a, b) ==
  \/ Len(a) < Len(b)
  \/ /\ Len(a) = Len(b)
     /\ \E k \in 1..Len(a) :
          /\ DigitVal(a[k]) < DigitVal(b[k])
          /\ \A j \in 1..(k - 1) : a[j] = b[j]

IsIndexProp(p) == IsArrayIndex(p.key)
IsNameProp(p) == ~IsArrayIndex(p.key)

\* OrdinaryOwnPropertyKeys: array indices in ascending numeric order, then
\* the other string keys in the order they were created.
OwnProperties(obj) ==
  LET idx   == SelectSeq(obj.props, IsIndexProp)
      names == SelectSeq(obj.props, IsNameProp)
      rank(p) == 1 + Cardinality({q \in 1..Len(idx) : IndexLess(idx[q].key, p.key)})
      sorted == [r \in 1..Len(idx) |->
                   idx[CHOOSE q \in 1..Len(idx) : rank(idx[q]) = r]]
  IN  sorted \o names

JsonNull == [t |-> "null"]

\* SerializeJSONProperty of a primitive: a number that is not finite is
\* written null, minus zero is written 0.
SerializeJSONProperty(v) ==
  IF v.t = "number"
  THEN IF v.n.t = "fin"
       THEN [t |-> "number",
             n |-> IF v.n.m = 0 THEN [v.n EXCEPT !.neg = FALSE] ELSE v.n]
       ELSE JsonNull
  ELSE v

SerializeJSONObject(obj) ==
  LET ps == OwnProperties(obj)
  IN  [k \in 1..Len(ps) |->
         [key |-> ps[k].key, value |-> SerializeJSONProperty(ps[k].value)]]

JSONStringify(arr) == [k \in 1..Len(arr) |-> SerializeJSONObject(arr[k])]

(***************************************************************************)
(* Outcomes of a call.                                                     *)
(***************************************************************************)
NoOutcome == [kind |-> "none"]
Returned(json) == [kind |-> "ok", json |-> json]
Thrown(message) == [kind |-> "error", message |-> message]

EmptyInputMessage == <<"CSV input is empty">>
InsufficientRowsMessage ==
  <<"CSV must have at least a header row and one data row">>
ColumnMismatchMessage(row, got, expected) ==
  <<"Row ">> \o IntToString(row) \o <<" has ">> \o IntToString(got)
    \o <<" columns, but header has ">> \o IntToString(expected)
    \o <<" columns">>

(***************************************************************************)
(* csvToJson.  The locals of an earlier call stay in the variables until   *)
(* the next call declares them again.                                      *)
(***************************************************************************)
\* history of the first call, kept when a call ends
Finish(result) ==
  /\ outcome' = result
  /\ firstCsv' = IF firstOutcome = NoOutcome THEN csv ELSE firstCsv
  /\ firstOutcome' = IF firstOutcome = NoOutcome THEN result ELSE firstOutcome

\* IsEmptyInput had the test been !csv, without the trim
IsEmptyInput_NoTrim(text) == text = <<>>

\* !csv.trim()
IsEmptyInput(text) == Trim(text) = <<>>

\* csv.trim().split("\n")
LinesOf(text) == Split(Trim(text), "\n")

\* TooFewLines had the test been lines.length < 1
TooFewLines_HeaderSuffices(ls) == Len(ls) < 1

\* lines.length < 2
TooFewLines(ls) == Len(ls) < 2

\* if (!csv.trim()) throw new Error("CSV input is empty")
ThrowEmptyInput ==
  /\ pc = "entry"
  /\ IsEmptyInput(csv)
  /\ pc' = "thrown"
  /\ Finish(Thrown(EmptyInputMessage))
  /\ UNCHANGED <<csv, lines, headers, jsonArray, i, calls, otherCalled>>
  /\ UNCHANGED ui

\* const lines = csv.trim().split("\n"); if (lines.length < 2) throw ...
ThrowInsufficientRows ==
  /\ pc = "entry"
  /\ ~IsEmptyInput(csv)
  /\ TooFewLines(LinesOf(csv))
  /\ lines' = LinesOf(csv)
  /\ pc' = "thrown"
  /\ Finish(Thrown(InsufficientRowsMessage))
  /\ UNCHANGED <<csv, headers, jsonArray, i, calls, otherCalled>>
  /\ UNCHANGED ui

\* ParseHeader had jsonArray been declared outside the function
ParseHeader_KeepsArray ==
  /\ pc = "entry"
  /\ ~IsEmptyInput(csv)
  /\ ~TooFewLines(LinesOf(csv))
  /\ lines' = LinesOf(csv)
  /\ headers' = MapTrim(Split(LinesOf(csv)[1], ","))
  /\ i' = 1
  /\ pc' = "loop"
  /\ UNCHANGED <<csv, jsonArray, outcome, calls, otherCalled, firstCsv, firstOutcome>>
  /\ UNCHANGED ui

\* const headers = lines[0].split(",").map(trim); const jsonArray = [];
\* let i = 1
ParseHeader ==
  /\ pc = "entry"
  /\ ~IsEmptyInput(csv)
  /\ ~TooFewLines(LinesOf(csv))
  /\ lines' = LinesOf(csv)
  /\ headers' = MapTrim(Split(LinesOf(csv)[1], ","))
  /\ jsonArray' = <<>>
  /\ i' = 1
  /\ pc' = "loop"
  /\ UNCHANGED <<csv, outcome, calls, otherCalled, firstCsv, firstOutcome>>
  /\ UNCHANGED ui

\* const values = lines[i].split(",").map(trim)
Values == MapTrim(Split(lines[i + 1], ","))

\* ThrowColumnMismatch had the message used the loop index i
ThrowColumnMismatch_ZeroBased ==
  /\ pc = "loop"
  /\ i < Len(lines)
  /\ Len(Values) # Len(headers)
  /\ pc' = "thrown"
  /\ Finish(Thrown(ColumnMismatchMessage(i, Len(Values), Len(headers))))
  /\ UNCHANGED <<csv, lines, headers, jsonArray, i, calls, otherCalled>>
  /\ UNCHANGED ui

\* if (values.length !== headers.length) throw new Error(`Row ${i + 1} ...`)
ThrowColumnMismatch ==
  /\ pc = "loop"
  /\ i < Len(lines)
  /\ Len(Values) # Len(headers)
  /\ pc' = "thrown"
  /\ Finish(Thrown(ColumnMismatchMessage(i + 1, Len(Values), Len(headers))))
  /\ UNCHANGED <<csv, lines, headers, jsonArray, i, calls, otherCalled>>
  /\ UNCHANGED ui

\* PushRow had the row been put in front (unshift) of jsonArray
PushRow_Unshift ==
  /\ pc = "loop"
  /\ i < Len(lines)
  /\ Len(Values) = Len(headers)
  /\ jsonArray' = <<ForEachHeader(EmptyObject, headers, Values, 1)>> \o jsonArray
  /\ i' = i + 1
  /\ UNCHANGED <<csv, pc, lines, headers, outcome, calls, otherCalled, firstCsv, firstOutcome>>
  /\ UNCHANGED ui

\* one iteration of the for loop: build obj, jsonArray.push(obj), i++
PushRow ==
  /\ pc = "loop"
  /\ i < Len(lines)
  /\ Len(Values) = Len(headers)
  /\ jsonArray' = Append(jsonArray, ForEachHeader(EmptyObject, headers, Values, 1))
  /\ i' = i + 1
  /\ UNCHANGED <<csv, pc, lines, headers, outcome, calls, otherCalled, firstCsv, firstOutcome>>
  /\ UNCHANGED ui

\* return JSON.stringify(jsonArray, null, 2)
Return ==
  /\ pc = "loop"
  /\ i >= Len(lines)
  /\ pc' = "returned"
  /\ Finish(Returned(JSONStringify(jsonArray)))
  /\ UNCHANGED <<csv, lines, headers, jsonArray, i, calls, otherCalled>>
  /\ UNCHANGED ui

(***************************************************************************)
(* Inputs.                                                                 *)
(***************************************************************************)
\* every concatenation of at most n tokens
RECURSIVE Texts(_, _)
Texts(tokens, n) ==
  IF n = 0 THEN {<<>>}
  ELSE LET shorter == Texts(tokens, n - 1)
       IN  shorter \cup {s \o t : s \in shorter, t \in tokens}

Chars == {<<",">>, <<"\n">>, <<" ">>, <<"1">>, <<"a">>}

CellTokens ==
  { <<",">>, <<"\n">>, <<" ">>, <<"\t">>, <<"a">>, ProtoText,
    <<"4","2">>, <<"3",".","1","4">>, <<"0","0","7">>, <<"1","e","9","9","9">>,
    InfinityText, TrueText, <<"T","R","U","E">>, <<"F","a","l","s","e">>,
    NullText, <<"N","U","L","L">>, <<"N","e","w"," ","Y","o","r","k">> }

CallTokens == {<<",">>, <<"a">>, <<"\n", "a">>}

\* sampleCsvData, cut to its first two columns and its first data row
SampleCsvData ==
  <<"n","a","m","e",",","a","g","e","\n",
    "J","o","h","n"," ","D","o","e",",","2","8">>

\* no handleParse is in flight
NoPending == [stage |-> "none", input |-> <<>>]

InitWith(inputs) ==
  /\ csv \in inputs
  /\ pc = "entry"
  /\ lines = <<>>
  /\ headers = <<>>
  /\ jsonArray = <<>>
  /\ i = 0
  /\ outcome = NoOutcome
  /\ calls = 1
  /\ otherCalled = FALSE
  /\ firstCsv = <<>>
  /\ firstOutcome = NoOutcome
  /\ csvInput = SampleCsvData
  /\ jsonOutput = <<>>
  /\ error = <<>>
  /\ isLoading = FALSE
  /\ pending = NoPending
  /\ reads = <<>>
  /\ cleared = FALSE

Init == InitWith(Texts(Chars, MaxLen))

Next ==
  \/ ThrowEmptyInput
  \/ ThrowInsufficientRows
  \/ ParseHeader
  \/ ThrowColumnMismatch
  \/ PushRow
  \/ Return

\* one call on every text of at most MaxLen characters of Chars
Spec == Init /\ [][Next]_vars

\* one call on every text of at most MaxToks tokens of CellTokens
InitCells == InitWith(Texts(CellTokens, MaxToks))
SpecCells == InitCells /\ [][Next]_vars

NumberTokens ==
  { <<",">>, <<"\n">>, <<" ">>, <<"a">>, <<"-">>, <<".">>, <<"e">>,
    <<"4","2">>, <<"3",".","1","4">>, <<"0","0","7">>, <<"0","x","1","F">>,
    <<"1","e","9","9","9">>, InfinityText }

\* one call on every text of at most MaxNumToks tokens of NumberTokens
InitNumbers == InitWith(Texts(NumberTokens, MaxNumToks))
SpecNumbers == InitNumbers /\ [][Next]_vars

\* the strings of ss with sep between them
RECURSIVE JoinWith(_, _)
JoinWith(ss, sep) ==
  IF Len(ss) = 0 THEN <<>>
  ELSE IF Len(ss) = 1 THEN ss[1]
  ELSE ss[1] \o <<sep>> \o JoinWith(Tail(ss), sep)

ColumnNames == {<<>>, <<"a">>, ProtoText}
ColumnCells == {<<>>, <<"1">>, <<"x">>}

\* a line of 1..MaxCols fields taken from fields
LinesOver(fields) ==
  {JoinWith(fs, ",") : fs \in UNION {[1..n -> fields] : n \in 1..MaxCols}}

\* a header line followed by 0..MaxRows data lines
TableTexts ==
  {JoinWith(<<h>> \o rs, "\n") :
     h \in LinesOver(ColumnNames),
     rs \in UNION {[1..m -> LinesOver(ColumnCells)] : m \in 0..MaxRows}}

\* one call on every table of ColumnNames and ColumnCells
InitColumns == InitWith(TableTexts)
SpecColumns == InitColumns /\ [][Next]_vars

\* the caller invokes csvToJson again, on any input
CallAgain ==
  /\ pc \in {"returned", "thrown"}
  /\ calls < MaxCalls
  /\ csv' \in Texts(CallTokens, MaxCallToks)
  /\ calls' = calls + 1
  /\ otherCalled' = (otherCalled \/ csv' # csv)
  /\ pc' = "entry"
  /\ UNCHANGED <<lines, headers, jsonArray, i, outcome, firstCsv, firstOutcome>>
  /\ UNCHANGED ui

InitCalls == InitWith(Texts(CallTokens, MaxCallToks))
NextCalls == Next \/ CallAgain
SpecCalls == InitCalls /\ [][NextCalls]_vars


(***************************************************************************)
(* The App component around csvToJson.  handleParse is asynchronous: the   *)
(* click sets the loading state and starts a 300 ms timer; when the timer  *)
(* fires, the rest of handleParse runs csvToJson on the csvInput of the    *)
(* render that was clicked and stores the result or the error.  That rest  *)
(* is synchronous: no other callback runs until it has ended.  The toasts  *)
(* and the rejected (non-CSV) file of handleFileUpload change no state and  *)
(* are left out.                                                           *)
(***************************************************************************)
converter == <<csv, pc, lines, headers, jsonArray, i, outcome, calls,
               otherCalled, firstCsv, firstOutcome>>

\* no callback is in the middle of its synchronous run
Quiet == pending.stage # "running"

\* onClick={handleParse}, disabled={isLoading || !csvInput.trim()}:
\* setIsLoading(true); setError(""); await new Promise(... setTimeout ...)
HandleParse ==
  /\ Quiet
  /\ ~isLoading
  /\ ~IsEmptyInput(csvInput)
  /\ calls < MaxCalls
  /\ isLoading' = TRUE
  /\ error' = <<>>
  /\ pending' = [stage |-> "timer", input |-> csvInput]
  /\ cleared' = FALSE
  /\ UNCHANGED <<csvInput, jsonOutput, reads>>
  /\ UNCHANGED converter

\* the timer fires: const result = csvToJson(csvInput) is entered
TimerFires ==
  /\ pending.stage = "timer"
  /\ pending' = [pending EXCEPT !.stage = "running"]
  /\ csv' = pending.input
  /\ pc' = "entry"
  /\ calls' = calls + 1
  /\ otherCalled' = (otherCalled \/ csv' # csv)
  /\ UNCHANGED <<lines, headers, jsonArray, i, outcome, firstCsv, firstOutcome>>
  /\ UNCHANGED <<csvInput, jsonOutput, error, isLoading, reads, cleared>>

\* setJsonOutput(result); toast; finally setIsLoading(false)
HandleParseSucceeds ==
  /\ pending.stage = "running"
  /\ pc = "returned"
  /\ jsonOutput' = outcome.json
  /\ isLoading' = FALSE
  /\ pending' = NoPending
  /\ UNCHANGED <<csvInput, error, reads, cleared>>
  /\ UNCHANGED converter

\* HandleParseFails had the catch block not called setJsonOutput("")
HandleParseFails_KeepsOutput ==
  /\ pending.stage = "running"
  /\ pc = "thrown"
  /\ error' = outcome.message
  /\ isLoading' = FALSE
  /\ pending' = NoPending
  /\ UNCHANGED <<csvInput, jsonOutput, reads, cleared>>
  /\ UNCHANGED converter

\* catch: setError(err.message); setJsonOutput(""); finally setIsLoading(false)
HandleParseFails ==
  /\ pending.stage = "running"
  /\ pc = "thrown"
  /\ error' = outcome.message
  /\ jsonOutput' = <<>>
  /\ isLoading' = FALSE
  /\ pending' = NoPending
  /\ UNCHANGED <<csvInput, reads, cleared>>
  /\ UNCHANGED converter

\* onChange={(e) => setCsvInput(e.target.value)}
SetCsvInput(text) ==
  /\ Quiet
  /\ csvInput' = text
  /\ UNCHANGED <<jsonOutput, error, isLoading, pending, reads, cleared>>
  /\ UNCHANGED converter

\* handleFileUpload with a text/csv file: reader.readAsText(file)
HandleFileUpload(content) ==
  /\ Quiet
  /\ Len(reads) < MaxReads
  /\ reads' = Append(reads, content)
  /\ UNCHANGED <<csvInput, jsonOutput, error, isLoading, pending, cleared>>
  /\ UNCHANGED converter

\* reader.onload: setCsvInput(content); setJsonOutput(""); setError("")
ReaderOnLoad(k) ==
  /\ Quiet
  /\ csvInput' = reads[k]
  /\ jsonOutput' = <<>>
  /\ error' = <<>>
  /\ reads' = [n \in 1..(Len(reads) - 1) |-> IF n < k THEN reads[n] ELSE reads[n + 1]]
  /\ cleared' = TRUE
  /\ UNCHANGED <<isLoading, pending>>
  /\ UNCHANGED converter

\* handleReset: setCsvInput(sampleCsvData); setJsonOutput(""); setError("")
HandleReset ==
  /\ Quiet
  /\ csvInput' = SampleCsvData
  /\ jsonOutput' = <<>>
  /\ error' = <<>>
  /\ cleared' = TRUE
  /\ UNCHANGED <<isLoading, pending, reads>>
  /\ UNCHANGED converter

\* what the user types or uploads: a blank text, a header without rows, a
\* row of another width than its header, and a table that converts
UiTexts ==
  { <<" ">>, <<"a">>, <<"a", "\n", ",">>, <<"a", ",", "a", "\n", "1", ",", "x">> }

\* the state after the first render: the sample in the input pane
InitApp ==
  /\ csv = <<>>
  /\ pc = "idle"
  /\ lines = <<>>
  /\ headers = <<>>
  /\ jsonArray = <<>>
  /\ i = 0
  /\ outcome = NoOutcome
  /\ calls = 0
  /\ otherCalled = FALSE
  /\ firstCsv = <<>>
  /\ firstOutcome = NoOutcome
  /\ csvInput = SampleCsvData
  /\ jsonOutput = <<>>
  /\ error = <<>>
  /\ isLoading = FALSE
  /\ pending = NoPending
  /\ reads = <<>>
  /\ cleared = FALSE

\* The steps of csvToJson are those of Next without ThrowEmptyInput: the
\* Convert button is disabled on a blank csvInput, so handleParse never
\* passes one.
NextApp ==
  \/ HandleParse
  \/ TimerFires
  \/ ThrowInsufficientRows
  \/ ParseHeader
  \/ ThrowColumnMismatch
  \/ PushRow
  \/ Return
  \/ HandleParseSucceeds
  \/ HandleParseFails
  \/ \E text \in UiTexts : SetCsvInput(text)
  \/ \E content \in UiTexts : HandleFileUpload(content)
  \/ \E k \in 1..Len(reads) : ReaderOnLoad(k)
  \/ HandleReset

\* at most MaxCalls conversions of typed, uploaded and sample texts
SpecApp == InitApp /\ [][NextApp]_vars

\* csvToJson is never entered with a blank text in SpecApp
AppNeverPassesBlank == pc = "entry" => ~IsEmptyInput(csv)

(***************************************************************************)
(* The input as the properties read it: the trimmed text, its lines, the   *)
(* comma-separated fields of a line.  These are stated by positions and    *)
(* counts, not by the converter's own splitting.                           *)
(***************************************************************************)
Done == pc \in {"returned", "thrown"}

Text == LET keep == {k \in 1..Len(csv) : csv[k] \notin WhiteSpace}
        IN  IF keep = {} THEN <<>>
            ELSE [k \in 1..(SetMax(keep) - SetMin(keep) + 1) |-> csv[SetMin(keep) + k - 1]]

CountOf(s, c) == Cardinality({k \in 1..Len(s) : s[k] = c})

\* position of the n-th occurrence of c in s
NthPos(s, c, n) ==
  CHOOSE q \in 1..Len(s) :
    s[q] = c /\ Cardinality({k \in 1..(q - 1) : s[k] = c}) = n - 1

\* the n-th of the pieces of s that c separates
Piece(s, c, n) ==
  LET from == IF n = 1 THEN 1 ELSE NthPos(s, c, n - 1) + 1
      to   == IF n = CountOf(s, c) + 1 THEN Len(s) ELSE NthPos(s, c, n) - 1
  IN  [k \in 1..(to - from + 1) |-> s[from + k - 1]]

NumLines == CountOf(Text, "\n") + 1
Line(n) == Piece(Text, "\n", n)
FieldCount(line) == CountOf(line, ",") + 1
NumColumns == FieldCount(Line(1))
NumRows == NumLines - 1
\* the trimmed name of column j, the trimmed cell of data row r in column j
HeaderName(j) == Trim(Piece(Line(1), ",", j))
Cell(r, j) == Trim(Piece(Line(r + 1), ",", j))

WellFormed ==
  /\ Text # <<>>
  /\ NumLines >= 2
  /\ \A n \in 2..NumLines : FieldCount(Line(n)) = NumColumns

BadLines == {n \in 2..NumLines : FieldCount(Line(n)) # NumColumns}

HasMember(object, name) == \E k \in 1..Len(object) : object[k].key = name
MemberValue(object, name) ==
  object[CHOOSE k \in 1..Len(object) : object[k].key = name].value

(***************************************************************************)
(* C1: every input whose trimmed text is a header line of N fields and     *)
(* M >= 1 lines of N fields each is converted without an error into an     *)
(* array of exactly M objects, the r-th of them built from the r-th data   *)
(* line: each of its members is named by a column and holds the JSON       *)
(* value of that line's cell in that column.                               *)
(***************************************************************************)
C1_EveryRowConverted ==
  (Done /\ WellFormed) =>
    /\ outcome.kind = "ok"
    /\ Len(outcome.json) = NumRows
    /\ \A r \in 1..NumRows :
         \A k \in 1..Len(outcome.json[r]) :
           \E j \in 1..NumColumns :
             /\ outcome.json[r][k].key = HeaderName(j)
             /\ outcome.json[r][k].value = SerializeJSONProperty(Coerce(Cell(r, j)))

\* two data rows with different cells have been converted
C1_Witness ==
  /\ pc = "returned"
  /\ WellFormed
  /\ NumRows >= 2
  /\ Len(outcome.json) >= 2
  /\ outcome.json[1] # outcome.json[2]
  /\ outcome.json[1] # <<>>

(***************************************************************************)
(* C2: on a successful conversion every output object has exactly the      *)
(* trimmed header names as its keys, written in the header's left-to-right *)
(* column order (a repeated name counted where it first occurs).           *)
(***************************************************************************)
DistinctNames ==
  LET first == {j \in 1..NumColumns :
                  \A h \in 1..(j - 1) : HeaderName(h) # HeaderName(j)}
  IN  [k \in 1..Cardinality(first) |->
         HeaderName(CHOOSE j \in first :
                      Cardinality({h \in first : h < j}) = k - 1)]

KeysOf(object) == [k \in 1..Len(object) |-> object[k].key]

C2_KeysInHeaderOrder ==
  pc = "returned" =>
    \A r \in 1..Len(outcome.json) : KeysOf(outcome.json[r]) = DistinctNames

(***************************************************************************)
(* C3: when some data line has a field count other than the header's, the  *)
(* call throws the column-mismatch error of the FIRST such line: its       *)
(* number counting the header as row 1, its field count, the header's      *)
(* field count.  Nothing is returned.                                      *)
(***************************************************************************)
C3_FirstMismatchReported ==
  (Done /\ Text # <<>> /\ BadLines # {}) =>
    LET n == SetMin(BadLines)
    IN  /\ outcome.kind = "error"
        /\ outcome.message =
             <<"Row ">> \o IntToString(n) \o <<" has ">>
               \o IntToString(FieldCount(Line(n)))
               \o <<" columns, but header has ">> \o IntToString(NumColumns)
               \o <<" columns">>

\* a valid row came before the offending one
C3_Witness ==
  /\ pc = "thrown"
  /\ Text # <<>>
  /\ BadLines # {}
  /\ SetMin(BadLines) >= 3
  /\ Len(jsonArray) >= 1

(***************************************************************************)
(* C4: an input that is empty or consists of white space only (newlines    *)
(* included) fails with "CSV input is empty".                              *)
(***************************************************************************)
OnlyWhiteSpace == \A k \in 1..Len(csv) : csv[k] \in WhiteSpace

C4_BlankInputIsEmptyInput ==
  (Done /\ OnlyWhiteSpace) => outcome = Thrown(<<"CSV input is empty">>)

\* a blank input with a newline and a space in it has been rejected
C4_Witness ==
  /\ pc = "thrown"
  /\ OnlyWhiteSpace
  /\ \E k \in 1..Len(csv) : csv[k] = "\n"
  /\ \E k \in 1..Len(csv) : csv[k] = " "

(***************************************************************************)
(* C5: an input whose trimmed text is not empty and has no newline (a      *)
(* header without data rows) fails with the insufficient-rows error and    *)
(* returns nothing.                                                        *)
(***************************************************************************)
HeaderOnly == Text # <<>> /\ CountOf(Text, "\n") = 0

C5_HeaderOnlyIsInsufficientRows ==
  (Done /\ HeaderOnly) =>
    outcome = Thrown(<<"CSV must have at least a header row and one data row">>)

\* a header of several columns, padded with white space, has been rejected
C5_Witness ==
  /\ pc = "thrown"
  /\ HeaderOnly
  /\ CountOf(Text, ",") >= 1
  /\ Len(csv) > Len(Text)

(***************************************************************************)
(* C6: every cell whose trimmed text is not empty and is a numeric literal *)
(* gives, in the record of its row, a field under its column's name that   *)
(* is a JSON number of the literal's value (never a string, never null).   *)
(***************************************************************************)
IsNumericText(c) == c # <<>> /\ ~IsNaN(StringToNumber(c))

\* equal as numbers: minus zero and zero are the same JSON number 0
SameNumber(a, b) == a = b \/ (a.t = "fin" /\ b.t = "fin" /\ a.m = 0 /\ b.m = 0)

C6_NumericCellIsNumber ==
  pc = "returned" =>
    \A r \in 1..NumRows : \A j \in 1..NumColumns :
      IsNumericText(Cell(r, j)) =>
        /\ HasMember(outcome.json[r], HeaderName(j))
        /\ MemberValue(outcome.json[r], HeaderName(j)).t = "number"
        /\ SameNumber(MemberValue(outcome.json[r], HeaderName(j)).n,
                      StringToNumber(Cell(r, j)))

(***************************************************************************)
(* C7: every cell whose trimmed text is empty or is "null" in any letter   *)
(* case gives, in the record of its row, a field under its column's name   *)
(* that is JSON null.                                                      *)
(***************************************************************************)
IsNullText(c) == c = <<>> \/ ToLowerCase(c) = NullText

C7_NullCellIsNull ==
  pc = "returned" =>
    \A r \in 1..NumRows : \A j \in 1..NumColumns :
      IsNullText(Cell(r, j)) =>
        /\ HasMember(outcome.json[r], HeaderName(j))
        /\ MemberValue(outcome.json[r], HeaderName(j)) = [t |-> "null"]

(***************************************************************************)
(* C8: every cell whose trimmed text is "true" or "false" in any letter    *)
(* case gives, in the record of its row, a field under its column's name   *)
(* that is the JSON boolean true or false respectively.                    *)
(***************************************************************************)
IsBooleanText(c) == ToLowerCase(c) \in {TrueText, FalseText}

C8_BooleanCellIsBoolean ==
  pc = "returned" =>
    \A r \in 1..NumRows : \A j \in 1..NumColumns :
      IsBooleanText(Cell(r, j)) =>
        /\ HasMember(outcome.json[r], HeaderName(j))
        /\ MemberValue(outcome.json[r], HeaderName(j)) =
             [t |-> "boolean", b |-> ToLowerCase(Cell(r, j)) = TrueText]

(***************************************************************************)
(* C9: every cell that is not numeric, not a boolean word and not "null"   *)
(* or empty gives, in the record of its row, a field under its column's    *)
(* name that is the JSON string of the cell's text, trimmed of the         *)
(* surrounding white space and otherwise unchanged.                        *)
(***************************************************************************)
C9_OtherCellIsTrimmedString ==
  pc = "returned" =>
    \A r \in 1..NumRows : \A j \in 1..NumColumns :
      (/\ ~IsNumericText(Cell(r, j))
       /\ ~IsBooleanText(Cell(r, j))
       /\ ~IsNullText(Cell(r, j))) =>
        /\ HasMember(outcome.json[r], HeaderName(j))
        /\ MemberValue(outcome.json[r], HeaderName(j)) =
             [t |-> "string", s |-> Cell(r, j)]

(***************************************************************************)
(* C10: the converter keeps nothing from one call to the next: whatever    *)
(* calls came before, a call on the input of the first call ends with the  *)
(* outcome of the first call (the same JSON, or the same error).           *)
(***************************************************************************)
C10_SameInputSameOutcome ==
  (Done /\ csv = firstCsv) => outcome = firstOutcome

\* a later call on the first call's input has returned JSON, after a call
\* on another input
C10_Witness ==
  /\ pc = "returned"
  /\ calls >= 3
  /\ otherCalled
  /\ csv = firstCsv
  /\ Len(outcome.json) >= 1

(***************************************************************************)
(* C12: when the trimmed header has the same name in several columns, the  *)
(* conversion still succeeds, and every output record has that name        *)
(* exactly once, holding the coerced value of the LAST column of that      *)
(* name (as JSON writes that value).                                       *)
(***************************************************************************)
IsRepeated(j) ==
  \E h \in 1..NumColumns : h # j /\ HeaderName(h) = HeaderName(j)

LastColumnOf(name) == SetMax({h \in 1..NumColumns : HeaderName(h) = name})

C12_LastDuplicateWins ==
  (Done /\ WellFormed) =>
    \A j \in 1..NumColumns :
      IsRepeated(j) =>
        /\ outcome.kind = "ok"
        /\ \A r \in 1..NumRows :
             /\ Cardinality({k \in 1..Len(outcome.json[r]) :
                               outcome.json[r][k].key = HeaderName(j)}) = 1
             /\ MemberValue(outcome.json[r], HeaderName(j)) =
                  SerializeJSONProperty(
                    Coerce(Cell(r, LastColumnOf(HeaderName(j)))))

(***************************************************************************)
(* C11: whenever handleParse ends because csvToJson threw, the component's *)
(* state afterwards has error equal to the thrown message, jsonOutput      *)
(* empty (the output of an earlier successful conversion is cleared) and   *)
(* isLoading false.                                                        *)
(***************************************************************************)
EndsFailed ==
  /\ pending.stage = "running"
  /\ pc = "thrown"
  /\ pending'.stage = "none"

C11_FailedConvertShowsOnlyError ==
  [][EndsFailed =>
       /\ outcome.kind = "error"
       /\ error' = outcome.message
       /\ error' # <<>>
       /\ jsonOutput' = <<>>
       /\ isLoading' = FALSE]_vars

\* a failed conversion has ended after an earlier one had succeeded; with
\* no reset or file load since the click, the display is what it left
C11_Witness ==
  /\ pending = NoPending
  /\ pc = "thrown"
  /\ calls >= 2
  /\ firstOutcome.kind = "ok"
  /\ ~cleared
  /\ error = outcome.message
  /\ jsonOutput = <<>>
  /\ ~isLoading

(***************************************************************************)
(* C13: once handleReset or reader.onload has cleared jsonOutput and       *)
(* error, both stay empty until Convert is clicked again; a conversion     *)
(* that was pending at the clear does not write into the display.          *)
(* cleared is set by handleReset and reader.onload and reset by the next   *)
(* click of Convert.                                                       *)
(***************************************************************************)
C13_ClearedStaysEmpty ==
  cleared => (jsonOutput = <<>> /\ error = <<>>)

====
